---- MODULE Spec2Model ----
(***************************************************************************)
(* The Shopify relay backend of src/index.js: three POST routes (search,   *)
(* add-to-cart, create-checkout) and the GET /product/:handle route of its *)
(* variant src/unnamed/part_001, the in-memory session store `sessions`,   *)
(* and the remote Storefront GraphQL endpoint reached through shopifyFetch.*)
(* Every await of a remote call is a point where other requests may run;   *)
(* the code between two awaits runs atomically (one JavaScript thread).    *)
(***************************************************************************)
EXTENDS Integers, Sequences, FiniteSets, TLC

VARIABLES
  sessions,   \* the Map `sessions`: session key -> [cartId, checkoutUrl]
  req,        \* the requests being handled, one record per handler slot
  cartLog,    \* remote: the i-th cart the remote created was asked for by key cartLog[i]
  started,    \* number of requests received so far
  echoed,     \* remote: every cartLinesAdd answer so far carried the cart id it was given
  last,       \* the most recently answered request
  store0,     \* the session store as it was when the latest request arrived
  written,    \* per session key, the {cartId, checkoutUrl} of the remote's latest successful mutation answer
  firstAdd    \* per session key, the cart id its first successful add-to-cart sent and reported

vars == <<sessions, req, cartLog, started, echoed, last, store0, written, firstAdd>>

\* ------------------------------------------------------------------ bounds
MaxReq == 3
MaxSeqReq == 5
MaxBodyReq == 3
MaxKeyReq == 3
MaxLiveReq == 2
MaxLiveInFlight == 2
MaxInFlight == 2

\* ------------------------------------------------------- program constants
SliceLen == 128
PageSize == 10
DefaultQuantity == 1
FallbackQuantity == 1

\* ------------------------------------------------------------ JavaScript values
\* A JSON/JavaScript value: its type tag, its number (numbers only) and its
\* characters (strings only).
JS(t, n, s) == [t |-> t, n |-> n, s |-> s]
Undefined == JS("undefined", 0, <<>>)
Null == JS("null", 0, <<>>)
NaN == JS("NaN", 0, <<>>)
Num(n) == JS("number", n, <<>>)
Str(s) == JS("string", 0, s)

\* JavaScript truthiness: undefined, null, NaN, 0 and "" are falsy.
Truthy(v) ==
  CASE v.t = "number" -> v.n # 0
    [] v.t = "string" -> v.s # <<>>
    [] OTHER -> FALSE

DigitChars == <<"0", "1", "2", "3", "4", "5", "6", "7", "8", "9">>

IsDigit(c) == \E d \in 1..Len(DigitChars) : DigitChars[d] = c

DigitVal(c) == (CHOOSE d \in 1..Len(DigitChars) : DigitChars[d] = c) - 1

RECURSIVE ParseDigits(_, _)
ParseDigits(s, acc) ==
  IF s = <<>> THEN acc
  ELSE ParseDigits(Tail(s), acc * Len(DigitChars) + DigitVal(Head(s)))

AllDigits(s) == s # <<>> /\ \A i \in 1..Len(s) : IsDigit(s[i])

\* Number(v): undefined -> NaN, null -> 0, "" -> 0, a decimal numeral -> its
\* value, any other string -> NaN.
ToNumber(v) ==
  CASE v.t = "number" -> v
    [] v.t = "NaN" -> NaN
    [] v.t = "undefined" -> NaN
    [] v.t = "null" -> Num(0)
    [] v.t = "string" ->
         IF v.s = <<>> THEN Num(0)
         ELSE IF AllDigits(v.s) THEN Num(ParseDigits(v.s, 0))
         ELSE IF Head(v.s) = "-" /\ AllDigits(Tail(v.s))
              THEN Num(0 - ParseDigits(Tail(v.s), 0))
         ELSE NaN

RECURSIVE NatChars(_)
NatChars(n) ==
  IF n < Len(DigitChars) THEN <<DigitChars[n + 1]>>
  ELSE NatChars(n \div Len(DigitChars)) \o <<DigitChars[(n % Len(DigitChars)) + 1]>>

\* String(v) and template-literal interpolation `${v}`.
ToChars(v) ==
  CASE v.t = "string" -> v.s
    [] v.t = "number" -> IF v.n < 0 THEN <<"-">> \o NatChars(0 - v.n) ELSE NatChars(v.n)
    [] v.t = "NaN" -> <<"N", "a", "N">>
    [] v.t = "null" -> <<"n", "u", "l", "l">>
    [] OTHER -> <<"u", "n", "d", "e", "f", "i", "n", "e", "d">>

\* a || b
OrElse(a, b) == IF Truthy(a) THEN a ELSE b

\* s.slice(0, n)
SliceTo(s, n) == IF Len(s) <= n THEN s ELSE SubSeq(s, 1, n)

\* parts.join(sep)
RECURSIVE Join(_, _)
Join(parts, sep) ==
  IF parts = <<>> THEN <<>>
  ELSE IF Len(parts) = 1 THEN parts[1]
  ELSE parts[1] \o sep \o Join(Tail(parts), sep)

\* ------------------------------------------------------------ the session store
EmptyMap == <<>>

MapHas(m, k) == k \in DOMAIN m

MapSet(m, k, v) == [x \in (DOMAIN m) \cup {k} |-> IF x = k THEN v ELSE m[x]]

CartRecord(id, url) == [cartId |-> id, checkoutUrl |-> url]

\* sessions.get(k) when the key is absent (undefined): no cartId, no checkoutUrl.
NoRecord == CartRecord(0, "")

MapGet(m, k) == IF MapHas(m, k) THEN m[k] ELSE NoRecord

\* Faulty variant: getSessionId without the cut.
getSessionIdUncut(c) ==
  LET sid == IF c.hdr.t = "undefined" THEN Undefined ELSE Str(ToChars(c.hdr))
  IN IF Truthy(sid) THEN sid.s
     ELSE c.ip \o <<":">> \o OrElse(c.ua, Str(<<>>)).s

\* Faulty variant: the stored record is never recognised.
HasCartNever(s) == FALSE

\* s?.cartId is truthy
HasCart(s) == Truthy(Num(s.cartId))

\* ------------------------------------------------------------ session identity
\* getSessionId(req): the X-Session-Id header when truthy, else `${ip}:${ua || ''}`
\* cut to 128 characters.  c = [hdr, ip, ua]: hdr and ua are JavaScript values
\* (Undefined when the header is absent), ip is a character sequence.
getSessionId(c) ==
  LET sid == IF c.hdr.t = "undefined" THEN Undefined ELSE Str(ToChars(c.hdr))
  IN IF Truthy(sid) THEN sid.s
     ELSE SliceTo(c.ip \o <<":">> \o OrElse(c.ua, Str(<<>>)).s, SliceLen)

\* ------------------------------------------------------------ remote calls and answers
\* One call sent through shopifyFetch(query, variables).
CreateCall == [op |-> "CART_CREATE", cartId |-> 0, merchandiseId |-> Undefined,
               quantity |-> Undefined, q |-> <<>>, first |-> 0, handle |-> <<>>]

AddLinesCall(cartId, variantId, quantity) ==
  [op |-> "CART_LINES_ADD", cartId |-> cartId, merchandiseId |-> variantId,
   quantity |-> quantity, q |-> <<>>, first |-> 0, handle |-> <<>>]

SearchCall(q, first) ==
  [op |-> "SEARCH", cartId |-> 0, merchandiseId |-> Undefined,
   quantity |-> Undefined, q |-> q, first |-> first, handle |-> <<>>]

ProductCall(handle) ==
  [op |-> "PRODUCT", cartId |-> 0, merchandiseId |-> Undefined,
   quantity |-> Undefined, q |-> <<>>, first |-> 0, handle |-> handle]

\* One answer of the remote: res.ok, whether json.errors is present, whether the
\* mutation payload carries a user error, whether the payload carries its object
\* (cart / products), and the object's fields.
Answer(resOk, errors, userError, hasData, id, url, n) ==
  [resOk |-> resOk, errors |-> errors, userError |-> userError, hasData |-> hasData,
   id |-> id, url |-> url, n |-> n]

TransportFailure == Answer(FALSE, FALSE, FALSE, FALSE, 0, "", 0)
ErrorsArray == Answer(TRUE, TRUE, FALSE, FALSE, 0, "", 0)
UserError == Answer(TRUE, FALSE, TRUE, FALSE, 0, "", 0)
NoPayload == Answer(TRUE, FALSE, FALSE, FALSE, 0, "", 0)
Success(id, url, n) == Answer(TRUE, FALSE, FALSE, TRUE, id, url, n)

Failures == {TransportFailure, ErrorsArray, UserError, NoPayload}

\* shopifyFetch throws: !res.ok || json.errors
FetchThrows(ans) == ~ans.resOk \/ ans.errors

\* the message of the Error shopifyFetch throws: JSON.stringify(json.errors || json)
FetchMessage(ans) == IF ans.errors THEN "serialized errors" ELSE "serialized body"

\* A mutation answer the handler treats as a failure, and the message it throws.
MutationFails(ans) == FetchThrows(ans) \/ ans.userError \/ ~ans.hasData

MutationMessage(ans) ==
  IF FetchThrows(ans) THEN FetchMessage(ans)
  ELSE IF ans.userError THEN "user error message"
  ELSE "TypeError"

\* ------------------------------------------------------------ responses
NoResp == [status |-> 0, cartId |-> 0, checkoutUrl |-> "", n |-> 0, message |-> ""]

\* res.status(code).json({ error: true, message })
ErrorResp(code, message) ==
  [status |-> code, cartId |-> 0, checkoutUrl |-> "", n |-> 0, message |-> message]

\* res.json({ result: ... })
ResultResp(cartId, checkoutUrl, n) ==
  [status |-> 200, cartId |-> cartId, checkoutUrl |-> checkoutUrl, n |-> n, message |-> ""]

\* ------------------------------------------------------------ request handlers
\* One request being handled: where its handler stands (pc: "idle" before any
\* request, the remote call it awaits, or "done" once answered), its route, its
\* body, the caller fields getSessionId read, its session key, the handler's locals
\* variantId and quantity, the record ensureCartForSession returned, the remote
\* calls it has issued, its response and the number of responses sent for it.
NoBody == [variantId |-> Undefined, quantity |-> Undefined, query |-> Undefined,
           maxPrice |-> Undefined]

\* The caller of a request: its X-Session-Id header, its address, its User-Agent header.
NoClient == [hdr |-> Undefined, ip |-> <<>>, ua |-> Undefined]

IdleRq ==
  [pc |-> "idle", route |-> "none", body |-> NoBody, client |-> NoClient, sid |-> <<>>,
   variantId |-> Undefined,
   quantity |-> Undefined, session |-> NoRecord, sent |-> <<>>, resp |-> NoResp,
   answers |-> 0]

\* What one handler step leaves behind: the session store and the request.
Out(store, rq) == [sessions |-> store, rq |-> rq]

Respond(store, rq, resp) ==
  Out(store, [rq EXCEPT !.pc = "done", !.resp = resp, !.answers = @ + 1])

Await(store, rq, call) == Out(store, [rq EXCEPT !.pc = call.op, !.sent = Append(@, call)])

\* Faulty variant: another default quantity.
DestructureQuantityTwo(quantity) ==
  IF quantity.t = "undefined" THEN Num(DefaultQuantity + 1) ELSE quantity

\* const { quantity = 1 } = body: the default applies to undefined only.
DestructureQuantity(quantity) ==
  IF quantity.t = "undefined" THEN Num(DefaultQuantity) ELSE quantity

\* Number(quantity) || 1
LineQuantity(quantity) == OrElse(ToNumber(quantity), Num(FallbackQuantity))

\* Faulty variant: the price filter pushed before the text.
SearchQueryPriceFirst(query, maxPrice) ==
  LET textPart == IF Truthy(query) THEN <<ToChars(query)>> ELSE <<>>
      pricePart == IF Truthy(maxPrice)
                   THEN <<(<<"p", "r", "i", "c", "e", ":", "<">> \o ToChars(ToNumber(maxPrice)))>>
                   ELSE <<>>
  IN Join(pricePart \o textPart, <<" ">>)

\* POST /search, lines 113-117: the query string sent to the remote.
SearchQuery(query, maxPrice) ==
  LET textPart == IF Truthy(query) THEN <<ToChars(query)>> ELSE <<>>
      pricePart == IF Truthy(maxPrice)
                   THEN <<(<<"p", "r", "i", "c", "e", ":", "<">> \o ToChars(ToNumber(maxPrice)))>>
                   ELSE <<>>
  IN Join(textPart \o pricePart, <<" ">>)

\* POST /search up to its await.
SearchBegin(store, rq, body) ==
  Await(store, [rq EXCEPT !.route = "search", !.body = body],
        SearchCall(SearchQuery(body.query, body.maxPrice), PageSize))

\* Faulty variant: the search result is sent and the catch block then sends a 500.
SearchReturnTwice(store, rq, ans) ==
  IF FetchThrows(ans) THEN Respond(store, rq, ErrorResp(500, FetchMessage(ans)))
  ELSE IF ~ans.hasData THEN Respond(store, rq, ErrorResp(500, "TypeError"))
  ELSE Respond(store, Respond(store, rq, ResultResp(0, "", ans.n)).rq,
               ErrorResp(500, "TypeError"))

\* POST /search after shopifyFetch returns.
SearchReturn(store, rq, ans) ==
  IF FetchThrows(ans) THEN Respond(store, rq, ErrorResp(500, FetchMessage(ans)))
  ELSE IF ~ans.hasData THEN Respond(store, rq, ErrorResp(500, "TypeError"))
  ELSE Respond(store, rq, ResultResp(0, "", ans.n))

\* GET /product/:handle up to its await.
ProductBegin(store, rq, handle) ==
  Await(store, [rq EXCEPT !.route = "product"], ProductCall(handle))

\* GET /product/:handle after shopifyFetch returns: data.product (the product or
\* null) is the result.
ProductReturn(store, rq, ans) ==
  IF FetchThrows(ans) THEN Respond(store, rq, ErrorResp(500, FetchMessage(ans)))
  ELSE Respond(store, rq, ResultResp(0, "", IF ans.hasData THEN ans.n ELSE 0))

\* POST /add-to-cart, lines 149-153: build the variables and call cartLinesAdd.
SendAddLines(store, rq, s) ==
  Await(store, [rq EXCEPT !.session = s],
        AddLinesCall(s.cartId, rq.variantId, LineQuantity(rq.quantity)))

\* POST /create-checkout, line 168.
AnswerCheckout(store, rq, s) ==
  Respond(store, [rq EXCEPT !.session = s], ResultResp(s.cartId, s.checkoutUrl, 0))

\* The caller of ensureCartForSession goes on with the record it returned.
Resolved(store, rq, s) ==
  IF rq.route = "add-to-cart" THEN SendAddLines(store, rq, s) ELSE AnswerCheckout(store, rq, s)

\* Faulty variant: ensureCartForSession without its lookup.
EnsureAlwaysCreates(store, rq) == Await(store, rq, CreateCall)

\* ensureCartForSession, lines 99-102: return the stored record, or call cartCreate.
EnsureBegin(store, rq) ==
  LET s == MapGet(store, rq.sid)
  IN IF HasCart(s) THEN Resolved(store, rq, s) ELSE Await(store, rq, CreateCall)

\* Faulty variant: ensureCartForSession looks the key up again after the await and keeps
\* a record another request stored meanwhile.
EnsureReturnKeepsFirst(store, rq, ans) ==
  IF MutationFails(ans) THEN Respond(store, rq, ErrorResp(500, MutationMessage(ans)))
  ELSE IF HasCart(MapGet(store, rq.sid)) THEN Resolved(store, rq, MapGet(store, rq.sid))
  ELSE LET s == CartRecord(ans.id, ans.url)
       IN Resolved(MapSet(store, rq.sid, s), rq, s)

\* Faulty variant: the created cart is stored under every key of the store.
EnsureReturnAllKeys(store, rq, ans) ==
  IF MutationFails(ans) THEN Respond(store, rq, ErrorResp(500, MutationMessage(ans)))
  ELSE LET s == CartRecord(ans.id, ans.url)
       IN Resolved([k \in (DOMAIN store) \cup {rq.sid} |-> s], rq, s)

\* Faulty variant: a failed cartCreate leaves a record without a cart under the key.
EnsureReturnPartialRecord(store, rq, ans) ==
  IF MutationFails(ans)
  THEN Respond(MapSet(store, rq.sid, NoRecord), rq, ErrorResp(500, MutationMessage(ans)))
  ELSE LET s == CartRecord(ans.id, ans.url)
       IN Resolved(MapSet(store, rq.sid, s), rq, s)

\* Faulty variant: a failed cartCreate is sent once more before giving up.
EnsureReturnRetries(store, rq, ans) ==
  IF MutationFails(ans)
  THEN IF Len(rq.sent) < 2 THEN Await(store, rq, CreateCall)
       ELSE Respond(store, rq, ErrorResp(500, MutationMessage(ans)))
  ELSE LET s == CartRecord(ans.id, ans.url)
       IN Resolved(MapSet(store, rq.sid, s), rq, s)

\* ensureCartForSession, lines 102-108, after cartCreate returns.
EnsureReturn(store, rq, ans) ==
  IF MutationFails(ans) THEN Respond(store, rq, ErrorResp(500, MutationMessage(ans)))
  ELSE LET s == CartRecord(ans.id, ans.url)
       IN Resolved(MapSet(store, rq.sid, s), rq, s)

\* Faulty variant: add-to-cart without the variantId check.
AddToCartUnchecked(store, rq, client, body) ==
  EnsureBegin(store, [rq EXCEPT !.route = "add-to-cart", !.body = body,
                                !.variantId = body.variantId,
                                !.quantity = DestructureQuantity(body.quantity),
                                !.client = client, !.sid = getSessionId(client)])

\* POST /add-to-cart up to its first await (or its 400).
AddToCartBegin(store, rq, client, body) ==
  LET r1 == [rq EXCEPT !.route = "add-to-cart", !.body = body, !.variantId = body.variantId,
                       !.quantity = DestructureQuantity(body.quantity)]
  IN IF ~Truthy(body.variantId)
     THEN Respond(store, r1, ErrorResp(400, "variantId required"))
     ELSE EnsureBegin(store, [r1 EXCEPT !.client = client, !.sid = getSessionId(client)])

\* Faulty variant: add-to-cart answers without storing the record the mutation returned.
AddLinesReturnKeepsRecord(store, rq, ans) ==
  IF MutationFails(ans) THEN Respond(store, rq, ErrorResp(500, MutationMessage(ans)))
  ELSE Respond(store, rq, ResultResp(ans.id, ans.url, ans.n))

\* Faulty variant: a failed cartLinesAdd deletes the session's entry.
AddLinesReturnDeletes(store, rq, ans) ==
  IF MutationFails(ans)
  THEN Respond([k \in (DOMAIN store) \ {rq.sid} |-> store[k]], rq,
               ErrorResp(500, MutationMessage(ans)))
  ELSE Respond(MapSet(store, rq.sid, CartRecord(ans.id, ans.url)), rq,
               ResultResp(ans.id, ans.url, ans.n))

\* Faulty variant: a failed cartLinesAdd invalidates the session's record.
AddLinesReturnDropsCart(store, rq, ans) ==
  IF MutationFails(ans)
  THEN Respond(MapSet(store, rq.sid, NoRecord), rq, ErrorResp(500, MutationMessage(ans)))
  ELSE Respond(MapSet(store, rq.sid, CartRecord(ans.id, ans.url)), rq,
               ResultResp(ans.id, ans.url, ans.n))

\* POST /add-to-cart, lines 153-158, after cartLinesAdd returns.
AddLinesReturn(store, rq, ans) ==
  IF MutationFails(ans) THEN Respond(store, rq, ErrorResp(500, MutationMessage(ans)))
  ELSE Respond(MapSet(store, rq.sid, CartRecord(ans.id, ans.url)), rq,
               ResultResp(ans.id, ans.url, ans.n))

\* POST /create-checkout up to its await (or its answer).
CheckoutBegin(store, rq, client) ==
  EnsureBegin(store, [rq EXCEPT !.route = "create-checkout", !.client = client,
                                !.sid = getSessionId(client)])

\* POST /add-to-cart from arrival to response, with nothing in between: a1 is the
\* remote's answer to cartCreate (if called), a2 its answer to cartLinesAdd.
AddToCartRun(store, client, body, a1, a2) ==
  LET b == AddToCartBegin(store, IdleRq, client, body)
      c == IF b.rq.pc = "CART_CREATE" THEN EnsureReturn(b.sessions, b.rq, a1) ELSE b
  IN IF c.rq.pc = "CART_LINES_ADD" THEN AddLinesReturn(c.sessions, c.rq, a2) ELSE c

\* ------------------------------------------------------------ inputs
RedShirt == <<"r", "e", "d", " ", "s", "h", "i", "r", "t">>

\* Callers: one sending X-Session-Id, one without it, and one whose header equals
\* the key derived for the second.
Clients ==
  { [hdr |-> Str(<<"s", "1">>), ip |-> <<"1">>, ua |-> Str(<<"m">>)],
    [hdr |-> Undefined, ip |-> <<"1">>, ua |-> Str(<<"m">>)],
    [hdr |-> Str(<<"1", ":", "m">>), ip |-> <<"2">>, ua |-> Undefined] }

Keys == { getSessionId(c) : c \in Clients }

\* A User-Agent of n characters.
LongAgent(n) == Str([i \in 1..n |-> "a"])

\* Callers that exercise getSessionId: the same header from two addresses, no
\* header, an empty header, a header equal to another caller's derived key, no
\* User-Agent, and user agents that make `ip:userAgent` exactly SliceLen
\* characters, one more, and many more.
KeyClients ==
  { [hdr |-> Str(<<"s", "1">>), ip |-> <<"1">>, ua |-> Str(<<"m">>)],
    [hdr |-> Str(<<"s", "1">>), ip |-> <<"2">>, ua |-> LongAgent(SliceLen + 2)],
    [hdr |-> Undefined, ip |-> <<"1">>, ua |-> Str(<<"m">>)],
    [hdr |-> Str(<<>>), ip |-> <<"1">>, ua |-> Str(<<"m">>)],
    [hdr |-> Str(<<"1", ":", "m">>), ip |-> <<"2">>, ua |-> Undefined],
    [hdr |-> Undefined, ip |-> <<"2">>, ua |-> Undefined],
    [hdr |-> Undefined, ip |-> <<"1">>, ua |-> LongAgent(SliceLen - 2)],
    [hdr |-> Undefined, ip |-> <<"1">>, ua |-> LongAgent(SliceLen - 1)],
    [hdr |-> Undefined, ip |-> <<"1">>, ua |-> LongAgent(SliceLen + 2)] }

\* What the callers and the remote may send.  Each specification names its own
\* input sets: the callers, variantId, quantity, query, maxPrice of the request
\* bodies, and the checkoutUrl, the item counts and the failures of the remote's
\* answers.
\* Request bodies in full, a remote with one failure.
BodyInputs ==
  [ clients    |-> Clients,
    variantIds |-> { Undefined, Null, Str(<<>>), Str(<<"v">>) },
    quantities |-> { Undefined, Null, Num(0), Num(1), Num(2), Num(0 - 3),
                     Str(<<"2">>), Str(<<"a">>) },
    queries    |-> { Undefined, Str(<<>>), Str(RedShirt) },
    maxPrices  |-> { Undefined, Num(0), Num(999), Str(<<"9">>) },
    handles    |-> { <<"h">> },
    urls       |-> { "urlA" },
    counts     |-> { 1, 3 },
    failures   |-> { ErrorsArray } ]

\* The remote in full, few request bodies.
RemoteInputs ==
  [ clients    |-> Clients,
    variantIds |-> { Undefined, Str(<<"v">>) },
    quantities |-> { Undefined },
    queries    |-> { Str(RedShirt) },
    maxPrices  |-> { Num(999) },
    handles    |-> { <<"h">> },
    urls       |-> { "urlA", "urlB" },
    counts     |-> { 1 },
    failures   |-> Failures ]

\* Every kind of caller, one request body, a remote with one failure.
KeyInputs ==
  [ clients    |-> KeyClients,
    variantIds |-> { Str(<<"v">>) },
    quantities |-> { Undefined },
    queries    |-> { Str(RedShirt) },
    maxPrices  |-> { Num(999) },
    handles    |-> { <<"h">> },
    urls       |-> { "urlA" },
    counts     |-> { 1 },
    failures   |-> { ErrorsArray } ]

\* Concurrent requests: one caller per key, few request bodies, a remote with one
\* failure.
FewInputs ==
  [ clients    |-> { c \in Clients : c.ua.t = "string" },
    variantIds |-> { Undefined, Str(<<"v">>) },
    quantities |-> { Undefined },
    queries    |-> { Str(RedShirt) },
    maxPrices  |-> { Num(999) },
    handles    |-> { <<"h">> },
    urls       |-> { "urlA" },
    counts     |-> { 1 },
    failures   |-> { ErrorsArray } ]

\* ------------------------------------------------------------ state machine
Slots == 1..MaxInFlight

InFlight == { r \in Slots : req[r].pc # "idle" }

Free(r) == req[r].pc = "idle"

Init ==
  /\ sessions = EmptyMap
  /\ req = [r \in Slots |-> IdleRq]
  /\ cartLog = <<>>
  /\ started = 0
  /\ echoed = TRUE
  /\ last = IdleRq
  /\ store0 = EmptyMap
  /\ written = EmptyMap
  /\ firstAdd = EmptyMap

\* A request arrives and takes the lowest free slot, while fewer than lim requests
\* are being handled and fewer than cap have arrived.
Arrives(r, lim, cap) ==
  /\ started < cap
  /\ Cardinality(InFlight) < lim
  /\ Free(r)
  /\ \A x \in Slots : x < r => ~Free(x)
  /\ started' = started + 1
  /\ store0' = sessions

\* The handler step `o` of slot r takes effect; an answered request leaves its
\* slot and is remembered in `last`.
Apply(r, o) ==
  /\ sessions' = o.sessions
  /\ req' = [req EXCEPT ![r] = IF o.rq.pc = "done" THEN IdleRq ELSE o.rq]
  /\ last' = IF o.rq.pc = "done" THEN o.rq ELSE last

Search(r, lim, cap, in) ==
  /\ Arrives(r, lim, cap)
  /\ \E query \in in.queries, maxPrice \in in.maxPrices :
       Apply(r, SearchBegin(sessions, IdleRq, [NoBody EXCEPT !.query = query, !.maxPrice = maxPrice]))
  /\ UNCHANGED <<cartLog, echoed, written, firstAdd>>

AddToCart(r, lim, cap, in) ==
  /\ Arrives(r, lim, cap)
  /\ \E client \in in.clients, variantId \in in.variantIds, quantity \in in.quantities :
       Apply(r, AddToCartBegin(sessions, IdleRq, client,
                               [NoBody EXCEPT !.variantId = variantId, !.quantity = quantity]))
  /\ UNCHANGED <<cartLog, echoed, written, firstAdd>>

CreateCheckout(r, lim, cap, in) ==
  /\ Arrives(r, lim, cap)
  /\ \E client \in in.clients : Apply(r, CheckoutBegin(sessions, IdleRq, client))
  /\ UNCHANGED <<cartLog, echoed, written, firstAdd>>

Product(r, lim, cap, in) ==
  /\ Arrives(r, lim, cap)
  /\ \E handle \in in.handles : Apply(r, ProductBegin(sessions, IdleRq, handle))
  /\ UNCHANGED <<cartLog, echoed, written, firstAdd>>

\* The remote answers the product query of slot r.
ProductAnswered(r, in) ==
  /\ req[r].pc = "PRODUCT"
  /\ \E ans \in in.failures \cup { NoPayload } \cup { Success(0, "", n) : n \in in.counts } :
       Apply(r, ProductReturn(sessions, req[r], ans))
  /\ UNCHANGED <<cartLog, started, echoed, store0, written, firstAdd>>

\* The remote answers the product search of slot r.
SearchAnswered(r, in) ==
  /\ req[r].pc = "SEARCH"
  /\ \E ans \in in.failures \cup { Success(0, "", n) : n \in in.counts } :
       Apply(r, SearchReturn(sessions, req[r], ans))
  /\ UNCHANGED <<cartLog, started, echoed, store0, written, firstAdd>>

\* The remote answers the cartCreate of slot r; a cart it creates is a new one.
CartCreateAnswered(r, in) ==
  /\ req[r].pc = "CART_CREATE"
  /\ \E ans \in in.failures \cup { Success(Len(cartLog) + 1, u, 0) : u \in in.urls } :
       /\ Apply(r, EnsureReturn(sessions, req[r], ans))
       /\ cartLog' = IF MutationFails(ans) THEN cartLog ELSE Append(cartLog, req[r].sid)
       /\ written' = IF MutationFails(ans) THEN written
                     ELSE MapSet(written, req[r].sid, CartRecord(ans.id, ans.url))
  /\ UNCHANGED <<started, echoed, store0, firstAdd>>

\* The first successful add-to-cart of a key: the cart id it sent and the one it
\* was answered with; `again` once a later one has succeeded too.
NoteAdd(m, k, sentId, gotId) ==
  IF MapHas(m, k) THEN [m EXCEPT ![k].again = TRUE]
  ELSE MapSet(m, k, [sent |-> sentId, got |-> gotId, again |-> FALSE])

\* The remote answers the cartLinesAdd of slot r, with a cart it holds.
CartLinesAddAnswered(r, in) ==
  /\ req[r].pc = "CART_LINES_ADD"
  /\ LET call == req[r].sent[Len(req[r].sent)]
     IN \E ans \in in.failures \cup
                 { Success(id, u, n) : id \in 1..Len(cartLog), u \in in.urls, n \in in.counts } :
          /\ Apply(r, AddLinesReturn(sessions, req[r], ans))
          /\ echoed' = (echoed /\ (MutationFails(ans) \/ ans.id = call.cartId))
          /\ written' = IF MutationFails(ans) THEN written
                        ELSE MapSet(written, req[r].sid, CartRecord(ans.id, ans.url))
          /\ firstAdd' = IF MutationFails(ans) THEN firstAdd
                         ELSE NoteAdd(firstAdd, req[r].sid, call.cartId, ans.id)
  /\ UNCHANGED <<cartLog, started, store0>>

\* Requests handled concurrently.
Next ==
  \E r \in Slots :
    \/ Search(r, MaxInFlight, MaxReq, FewInputs)
    \/ AddToCart(r, MaxInFlight, MaxReq, FewInputs)
    \/ CreateCheckout(r, MaxInFlight, MaxReq, FewInputs)
    \/ SearchAnswered(r, FewInputs)
    \/ CartCreateAnswered(r, FewInputs)
    \/ CartLinesAddAnswered(r, FewInputs)
    \/ Product(r, MaxInFlight, MaxReq, FewInputs)
    \/ ProductAnswered(r, FewInputs)

Spec == Init /\ [][Next]_vars

\* The remote answers the call slot r awaits.
Answered(r, in) ==
  \/ SearchAnswered(r, in)
  \/ CartCreateAnswered(r, in)
  \/ CartLinesAddAnswered(r, in)
  \/ ProductAnswered(r, in)

\* Concurrent requests against a remote that eventually answers every call.
NextLive ==
  \E r \in Slots :
    \/ Search(r, MaxLiveInFlight, MaxLiveReq, FewInputs)
    \/ AddToCart(r, MaxLiveInFlight, MaxLiveReq, FewInputs)
    \/ CreateCheckout(r, MaxLiveInFlight, MaxLiveReq, FewInputs)
    \/ Product(r, MaxLiveInFlight, MaxLiveReq, FewInputs)
    \/ Answered(r, FewInputs)

LiveSpec == Init /\ [][NextLive]_vars /\ \A r \in Slots : WF_vars(Answered(r, FewInputs))

\* Requests handled one at a time (non-concurrent access), against every kind
\* of remote answer.
NextSeq ==
  \E r \in Slots :
    \/ Search(r, 1, MaxSeqReq, RemoteInputs)
    \/ AddToCart(r, 1, MaxSeqReq, RemoteInputs)
    \/ CreateCheckout(r, 1, MaxSeqReq, RemoteInputs)
    \/ SearchAnswered(r, RemoteInputs)
    \/ CartCreateAnswered(r, RemoteInputs)
    \/ CartLinesAddAnswered(r, RemoteInputs)
    \/ Product(r, 1, MaxSeqReq, RemoteInputs)
    \/ ProductAnswered(r, RemoteInputs)

SeqSpec == Init /\ [][NextSeq]_vars

\* Requests handled one at a time, with every kind of request body.
NextBody ==
  \E r \in Slots :
    \/ Search(r, 1, MaxBodyReq, BodyInputs)
    \/ AddToCart(r, 1, MaxBodyReq, BodyInputs)
    \/ CreateCheckout(r, 1, MaxBodyReq, BodyInputs)
    \/ SearchAnswered(r, BodyInputs)
    \/ CartCreateAnswered(r, BodyInputs)
    \/ CartLinesAddAnswered(r, BodyInputs)
    \/ Product(r, 1, MaxBodyReq, BodyInputs)
    \/ ProductAnswered(r, BodyInputs)

BodySpec == Init /\ [][NextBody]_vars

\* Requests handled one at a time, from every kind of caller.
NextKey ==
  \E r \in Slots :
    \/ Search(r, 1, MaxKeyReq, KeyInputs)
    \/ AddToCart(r, 1, MaxKeyReq, KeyInputs)
    \/ CreateCheckout(r, 1, MaxKeyReq, KeyInputs)
    \/ SearchAnswered(r, KeyInputs)
    \/ CartCreateAnswered(r, KeyInputs)
    \/ CartLinesAddAnswered(r, KeyInputs)
    \/ Product(r, 1, MaxKeyReq, KeyInputs)
    \/ ProductAnswered(r, KeyInputs)

KeySpec == Init /\ [][NextKey]_vars

\* ------------------------------------------------------------ properties
Quiet == InFlight = {}

\* Under sequential handling: the request that arrived last (being handled, or
\* the one answered last); store0 is the store as it found it.
Latest == IF Quiet THEN last ELSE req[CHOOSE r \in InFlight : TRUE]

CallsOf(rq, op) == { i \in 1..Len(rq.sent) : rq.sent[i].op = op }

\* The request reached ensureCartForSession.
Resolves(rq) ==
  \/ rq.route = "create-checkout"
  \/ rq.route = "add-to-cart" /\ Truthy(rq.variantId)

\* The carts the remote created for key k.
CartsOf(k) == { i \in 1..Len(cartLog) : cartLog[i] = k }

SuccessfulAdd(rq) == rq.route = "add-to-cart" /\ rq.pc = "done" /\ rq.resp.status = 200

\* C1: with requests handled one at a time, a resolve for a key without a record
\* issues exactly one createCart call and stores the cart the remote returned
\* under that key; the remote never creates a second cart for the key, and a
\* later create-checkout for the key issues no createCart and leaves the
\* stored record as it is.
C1_OneCartPerSession ==
  /\ \A k \in Keys : Cardinality(CartsOf(k)) <= 1
  /\ (started > 0 /\ Resolves(Latest)) =>
       LET k == Latest.sid
           had == HasCart(MapGet(store0, k))
       IN /\ Cardinality(CallsOf(Latest, "CART_CREATE")) = (IF had THEN 0 ELSE 1)
          /\ (~had /\ HasCart(Latest.session)) =>
               /\ cartLog[Latest.session.cartId] = k
               /\ (Latest.pc = "CART_LINES_ADD" \/ Latest.route = "create-checkout")
                    => MapGet(sessions, k) = Latest.session
          /\ (had /\ Latest.route = "create-checkout") =>
               MapGet(sessions, k) = MapGet(store0, k)

\* C1 witness: a create-checkout answered from the record an earlier request created.
C1_Witness ==
  /\ Quiet /\ started >= 2
  /\ last.route = "create-checkout" /\ last.resp.status = 200 /\ last.sent = <<>>
  /\ Cardinality(CartsOf(last.sid)) = 1
  /\ MapGet(sessions, last.sid).cartId \in CartsOf(last.sid)

\* C2: in every reachable state, for every caller whose key has a stored cart,
\* create-checkout answers at once with the stored cartId and checkoutUrl, issues no
\* remote call and leaves the store as it is, and add-to-cart goes on with the
\* stored record without a createCart call.
C2_StoredCartReused ==
  /\ \A c \in Clients :
       LET s == MapGet(sessions, getSessionId(c))
           co == CheckoutBegin(sessions, IdleRq, c)
           ao == AddToCartBegin(sessions, IdleRq, c, [NoBody EXCEPT !.variantId = Str(<<"v">>)])
       IN HasCart(s) =>
            /\ co.sessions = sessions /\ co.rq.pc = "done" /\ co.rq.sent = <<>>
            /\ co.rq.session = s
            /\ co.rq.resp = ResultResp(s.cartId, s.checkoutUrl, 0)
            /\ ao.sessions = sessions /\ ao.rq.session = s
            /\ CallsOf(ao.rq, "CART_CREATE") = {}
  /\ (last.route = "create-checkout" /\ last.sent = <<>>) =>
       /\ HasCart(last.session)
       /\ last.resp = ResultResp(last.session.cartId, last.session.checkoutUrl, 0)

\* C2 witness: a create-checkout was answered without any remote call.
C2_Witness ==
  /\ last.route = "create-checkout" /\ last.sent = <<>> /\ last.resp.status = 200
  /\ MapGet(sessions, last.sid) = last.session

\* What C3 says of the latest successful add-to-cart of a key that had an earlier
\* one: both sent, both reported and the store holds one and the same cart id.
SameCartAsFirstAdd ==
  (Quiet /\ SuccessfulAdd(last) /\ MapHas(firstAdd, last.sid) /\ firstAdd[last.sid].again) =>
     LET f == firstAdd[last.sid]
         call == last.sent[Len(last.sent)]
     IN /\ call.cartId = f.sent
        /\ last.resp.cartId = f.got
        /\ f.got = f.sent
        /\ MapGet(sessions, last.sid).cartId = f.sent

\* C3 as stated: with requests handled one at a time, two successful add-to-cart
\* calls of one key send and report the same cartId, which the store holds.
C3_Original == SameCartAsFirstAdd

\* C3 amended: the same, provided every cartLinesAdd answer of the remote carried
\* the id of the cart it was given.
C3_SameCartWhenEchoed == echoed => SameCartAsFirstAdd

\* C3 witness: a second successful add-to-cart of a key, the remote echoing.
C3_Witness ==
  /\ echoed /\ Quiet /\ SuccessfulAdd(last)
  /\ MapHas(firstAdd, last.sid) /\ firstAdd[last.sid].again

\* Whatever remote call a request awaits, a failing answer ends the request with
\* a 500, and that step writes nothing to the store (an answer without product
\* is no failure of a product query: its result is null).
FailuresAnswered500 ==
  \A r \in InFlight, ans \in Failures :
    LET o == IF req[r].pc = "SEARCH" THEN SearchReturn(sessions, req[r], ans)
             ELSE IF req[r].pc = "CART_CREATE" THEN EnsureReturn(sessions, req[r], ans)
             ELSE IF req[r].pc = "PRODUCT" THEN ProductReturn(sessions, req[r], ans)
             ELSE AddLinesReturn(sessions, req[r], ans)
    IN /\ o.rq.pc = "done" /\ o.sessions = sessions
       /\ (req[r].pc = "PRODUCT" /\ ~FetchThrows(ans)) \/ o.rq.resp.status = 500

\* C4 as stated: a request whose remote call failed is answered 500 and the store
\* is what it was when the request started.
C4_Original ==
  /\ FailuresAnswered500
  /\ (Quiet /\ last.resp.status = 500) => sessions = store0

\* C4 amended: ... or the request is an add-to-cart for a key without a cart,
\* whose createCart succeeded before cartLinesAdd failed: the store then holds, in
\* addition, the created cart under the request's key.
C4_FailedRequestStore ==
  /\ FailuresAnswered500
  /\ (Quiet /\ last.resp.status = 500) =>
       \/ sessions = store0
       \/ /\ last.route = "add-to-cart"
          /\ ~HasCart(MapGet(store0, last.sid))
          /\ Len(last.sent) = 2
          /\ HasCart(last.session)
          /\ cartLog[last.session.cartId] = last.sid
          /\ sessions = MapSet(store0, last.sid, last.session)

\* C4 witness: an add-to-cart for a new key failed at cartLinesAdd.
C4_Witness ==
  /\ Quiet /\ last.resp.status = 500 /\ last.route = "add-to-cart"
  /\ Len(last.sent) = 2 /\ sessions # store0

\* C5: an add-to-cart whose variantId is missing or falsy is answered 400, has
\* issued no remote call and has left the store as it was.
C5_MissingVariantId ==
  (started > 0 /\ Latest.route = "add-to-cart" /\ ~Truthy(Latest.body.variantId)) =>
     /\ Latest.pc = "done"
     /\ Latest.resp = ErrorResp(400, "variantId required")
     /\ Latest.sent = <<>>
     /\ sessions = store0

\* C5 witness: such a request was answered while no key had a cart.
C5_Witness ==
  /\ Quiet /\ last.route = "add-to-cart" /\ last.resp.status = 400
  /\ sessions = EmptyMap /\ cartLog = <<>>

\* The quantity C6 expects in the line item: the given number when it is a valid
\* positive number, 1 otherwise.
ClaimedQuantity(quantity) ==
  LET n == ToNumber(quantity)
  IN IF n.t = "number" /\ n.n > 0 THEN n ELSE Num(1)

\* C6 as stated: the quantity sent in the cartLinesAdd line item is 1 when the
\* request's quantity is absent, non-numeric, zero or negative, and the given
\* number when it is a valid positive number.
C6_Claim ==
  started > 0 =>
    \A i \in CallsOf(Latest, "CART_LINES_ADD") :
      Latest.sent[i].quantity = ClaimedQuantity(Latest.body.quantity)

\* What the caller and the remote can see of a handled request: the remote calls,
\* the store it leaves, the response.
Visible(o) == [sessions |-> o.sessions, sent |-> o.rq.sent, resp |-> o.rq.resp]

\* C7: from any reachable store and under the same remote answers, add-to-cart
\* with quantity omitted and add-to-cart with quantity 1 issue the same remote
\* calls, leave the same store and give the same response; and a handled request
\* of either kind has sent quantity 1.
C7_OmittedQuantityIsOne ==
  /\ Quiet =>
       \A client \in Clients, variantId \in BodyInputs.variantIds,
          a1 \in Failures \cup { Success(Len(cartLog) + 1, u, 0) : u \in BodyInputs.urls },
          a2 \in Failures \cup { Success(id, u, n) : id \in 1..(Len(cartLog) + 1),
                                                    u \in BodyInputs.urls,
                                                    n \in BodyInputs.counts } :
         Visible(AddToCartRun(sessions, client,
                              [NoBody EXCEPT !.variantId = variantId], a1, a2))
         = Visible(AddToCartRun(sessions, client,
                                [NoBody EXCEPT !.variantId = variantId, !.quantity = Num(1)],
                                a1, a2))
  /\ (started > 0 /\ Latest.route = "add-to-cart"
        /\ Latest.body.quantity \in {Undefined, Num(1)}) =>
       \A i \in CallsOf(Latest, "CART_LINES_ADD") : Latest.sent[i].quantity = Num(1)

\* C7 witness: an add-to-cart without quantity succeeded, having sent quantity 1.
C7_Witness ==
  /\ Quiet /\ SuccessfulAdd(last) /\ last.body.quantity = Undefined
  /\ last.sent[Len(last.sent)].quantity = Num(1)

\* C8: the store holds, for each key, the record of the latest successful mutation
\* answer for that key (a later write replaces an earlier one, whoever made it);
\* and, the remote echoing cart ids, the cart a key maps to is one created for
\* that key, so that of two carts created for one key the other one is referenced
\* by no key.
C8_LaterWriteWins ==
  /\ \A k \in DOMAIN sessions : MapHas(written, k) /\ sessions[k] = written[k]
  /\ echoed => \A k \in DOMAIN sessions : sessions[k].cartId \in CartsOf(k)

\* C8 witness: two requests for one new key both called createCart; both are
\* answered, the store maps the key to one of the two carts and no key to the other.
C8_Witness ==
  /\ Quiet
  /\ \E k \in DOMAIN sessions :
       /\ Cardinality(CartsOf(k)) = 2
       /\ sessions[k].cartId \in CartsOf(k)
       /\ \E i \in CartsOf(k) : \A k2 \in DOMAIN sessions : sessions[k2].cartId # i

\* C9: once an add-to-cart has succeeded, the stored record of its key is the
\* {cartId, checkoutUrl} the cartLinesAdd answer carried and the response reports;
\* a create-checkout for that key handled next issues no remote call, leaves the
\* store as it is and answers with that cartId and checkoutUrl.
C9_StoredAfterAdd ==
  (Quiet /\ SuccessfulAdd(last)) =>
     LET k == last.sid
         rec == CartRecord(last.resp.cartId, last.resp.checkoutUrl)
     IN /\ MapGet(sessions, k) = rec
        /\ MapGet(written, k) = rec
        /\ \A c \in Clients :
             getSessionId(c) = k =>
               LET o == CheckoutBegin(sessions, IdleRq, c)
               IN /\ o.rq.pc = "done" /\ o.rq.sent = <<>> /\ o.sessions = sessions
                  /\ o.rq.resp = ResultResp(rec.cartId, rec.checkoutUrl, 0)

\* C9 witness: an add-to-cart succeeded whose answer changed the key's checkoutUrl.
C9_Witness ==
  /\ Quiet /\ SuccessfulAdd(last)
  /\ HasCart(MapGet(store0, last.sid))
  /\ MapGet(store0, last.sid).checkoutUrl # last.resp.checkoutUrl
  /\ MapGet(sessions, last.sid).checkoutUrl = last.resp.checkoutUrl

PriceToken(n) == <<"p", "r", "i", "c", "e", ":", "<">> \o n

\* The query string C10 states: the text if query is present, then price:<N if
\* maxPrice is present, joined by one space.
ClaimedQuery(query, maxPrice) ==
  LET text == IF query.t # "undefined" THEN <<ToChars(query)>> ELSE <<>>
      price == IF maxPrice.t # "undefined" THEN <<PriceToken(ToChars(ToNumber(maxPrice)))>>
               ELSE <<>>
  IN IF text # <<>> /\ price # <<>> THEN text[1] \o <<" ">> \o price[1]
     ELSE IF text # <<>> THEN text[1]
     ELSE IF price # <<>> THEN price[1]
     ELSE <<>>

\* C10 as stated: the search sends the text if query is present, then price:<N if
\* maxPrice is present, joined by a single space, with page size 10.
C10_Original ==
  started > 0 =>
    \A i \in CallsOf(Latest, "SEARCH") :
      /\ Latest.sent[i].q = ClaimedQuery(Latest.body.query, Latest.body.maxPrice)
      /\ Latest.sent[i].first = PageSize

\* C10 amended: the text counts when it is non-empty and the max price when it is
\* not zero; the four stated cases come out as stated.
C10_SearchQuery ==
  started > 0 =>
    \A i \in CallsOf(Latest, "SEARCH") :
      LET query == Latest.body.query
          maxPrice == Latest.body.maxPrice
          q == Latest.sent[i].q
          hasText == query.t = "string" /\ query.s # <<>>
          hasPrice == /\ maxPrice.t \in {"number", "string"}
                      /\ maxPrice # Num(0) /\ maxPrice # Str(<<>>)
          price == PriceToken(ToChars(ToNumber(maxPrice)))
      IN /\ Latest.sent[i].first = PageSize
         /\ Latest.sent[i].cartId = 0
         /\ (hasText /\ hasPrice) => q = query.s \o <<" ">> \o price
         /\ (hasText /\ ~hasPrice) => q = query.s
         /\ (~hasText /\ hasPrice) => q = price
         /\ (~hasText /\ ~hasPrice) => q = <<>>
         /\ (query = Str(RedShirt) /\ maxPrice = Num(999)) =>
              q = <<"r", "e", "d", " ", "s", "h", "i", "r", "t", " ",
                    "p", "r", "i", "c", "e", ":", "<", "9", "9", "9">>
         /\ (query = Undefined /\ maxPrice = Num(999)) =>
              q = <<"p", "r", "i", "c", "e", ":", "<", "9", "9", "9">>

\* C10 witness: a search with query "red shirt" and maxPrice 999 was sent.
C10_Witness ==
  /\ started > 0 /\ Latest.route = "search"
  /\ Latest.body.query = Str(RedShirt) /\ Latest.body.maxPrice = Num(999)
  /\ Len(Latest.sent) = 1
  /\ Latest.sent[1].q = RedShirt \o <<" ">> \o PriceToken(<<"9", "9", "9">>)

\* The step the handler of slot r takes when the remote call it awaits is answered.
Return(r, ans) ==
  IF req[r].pc = "SEARCH" THEN SearchReturn(sessions, req[r], ans)
  ELSE IF req[r].pc = "CART_CREATE" THEN EnsureReturn(sessions, req[r], ans)
  ELSE IF req[r].pc = "PRODUCT" THEN ProductReturn(sessions, req[r], ans)
  ELSE AddLinesReturn(sessions, req[r], ans)

\* Every answer the remote may give to a call.
AnyAnswer ==
  Failures \cup { Success(id, u, n) : id \in 1..(Len(cartLog) + 1),
                                      u \in RemoteInputs.urls, n \in RemoteInputs.counts }

\* C11: with requests handled one at a time, a search has issued exactly one
\* remote call; a create-checkout one createCart if its key had no cart and no
\* call otherwise; an add-to-cart with a variantId one cartLinesAdd, preceded by
\* one createCart only if its key had no cart.  No answer makes a handler send
\* the answered call again: a failed answer ends the request with the calls it
\* has sent (after a failed createCart no cartLinesAdd follows), and the only
\* call that follows an answer is the one cartLinesAdd after a successful
\* createCart of an add-to-cart.
C11_OneRoundTrip ==
  /\ started > 0 =>
       LET rq == Latest
           had == HasCart(MapGet(store0, rq.sid))
           n == Len(rq.sent)
       IN /\ rq.route = "search" => (n = 1 /\ rq.sent[1].op = "SEARCH")
          /\ rq.route = "create-checkout" =>
               IF had THEN n = 0 ELSE (n = 1 /\ rq.sent[1] = CreateCall)
          /\ (rq.route = "add-to-cart" /\ ~Truthy(rq.variantId)) => n = 0
          /\ (rq.route = "add-to-cart" /\ Truthy(rq.variantId) /\ had) =>
               (n = 1 /\ rq.sent[1].op = "CART_LINES_ADD")
          /\ (rq.route = "add-to-cart" /\ Truthy(rq.variantId) /\ ~had) =>
               /\ n \in {1, 2}
               /\ rq.sent[1] = CreateCall
               /\ n = 2 => rq.sent[2].op = "CART_LINES_ADD"
               /\ n = 1 => (rq.pc = "CART_CREATE" \/ rq.resp.status = 500)
               /\ (rq.pc = "done" /\ rq.resp.status = 200) => n = 2
  /\ \A r \in InFlight, ans \in AnyAnswer :
       LET o == Return(r, ans)
       IN IF req[r].pc = "CART_CREATE" /\ req[r].route = "add-to-cart" /\ ~MutationFails(ans)
          THEN /\ o.rq.pc = "CART_LINES_ADD"
               /\ o.rq.sent = Append(req[r].sent, AddLinesCall(ans.id, req[r].variantId,
                                                               LineQuantity(req[r].quantity)))
          ELSE o.rq.pc = "done" /\ o.rq.sent = req[r].sent

\* C11 witness: an add-to-cart for a key without a cart whose createCart failed
\* was answered, having sent the one createCart and nothing else.
C11_Witness ==
  /\ Quiet /\ last.route = "add-to-cart" /\ Truthy(last.variantId)
  /\ last.resp.status = 500 /\ last.sent = <<CreateCall>>
  /\ ~HasCart(MapGet(store0, last.sid))

\* A request that reached ensureCartForSession was answered 500 after its
\* createCart failed.
CreateCartFailed(rq) ==
  Resolves(rq) /\ rq.pc = "done" /\ rq.resp.status = 500 /\ rq.sent = <<CreateCall>>

\* C12: with requests handled one at a time, whichever way the createCart of a
\* resolve fails (transport, errors array, user error, payload without cart),
\* the request is answered 500 with the failure's message and the store is left
\* as it is; after such a request the store is what it was when the request
\* arrived, its key has no cart, and a create-checkout or add-to-cart handled
\* next for that key calls createCart again.
C12_CreateCartFailure ==
  /\ \A r \in InFlight, ans \in Failures :
       req[r].pc = "CART_CREATE" =>
         LET o == EnsureReturn(sessions, req[r], ans)
         IN /\ o.rq.pc = "done"
            /\ o.rq.resp = ErrorResp(500, MutationMessage(ans))
            /\ o.rq.sent = req[r].sent
            /\ o.sessions = sessions
            /\ sessions = store0
            /\ MapHas(o.sessions, req[r].sid) = MapHas(store0, req[r].sid)
            /\ EnsureBegin(o.sessions, [IdleRq EXCEPT !.route = "create-checkout",
                                                      !.sid = req[r].sid]).rq.pc = "CART_CREATE"
  /\ (Quiet /\ CreateCartFailed(last)) =>
       /\ sessions = store0
       /\ MapHas(sessions, last.sid) = MapHas(store0, last.sid)
       /\ ~HasCart(MapGet(sessions, last.sid))
       /\ last.resp.message \in { MutationMessage(ans) : ans \in Failures }
       /\ \A c \in Clients :
            getSessionId(c) = last.sid =>
              /\ CheckoutBegin(sessions, IdleRq, c).rq.sent = <<CreateCall>>
              /\ AddToCartBegin(sessions, IdleRq, c,
                                [NoBody EXCEPT !.variantId = Str(<<"v">>)]).rq.sent = <<CreateCall>>

\* C12 witness: a createCart answered with a payload without cart failed its
\* request while another key holds a cart; the store is as the request found it.
C12_Witness ==
  /\ Quiet /\ CreateCartFailed(last) /\ last.resp.message = "TypeError"
  /\ sessions # EmptyMap /\ sessions = store0

\* C13: under any interleaving, no step removes a key from the store or leaves
\* it without a cart, and after every step each record of the store is the
\* {cartId, checkoutUrl} of a successful createCart or cartLinesAdd answer given
\* for its key, naming a cart the remote has created.
C13_StoreOnlyGrows ==
  [][ /\ \A k \in DOMAIN sessions : MapHas(sessions', k) /\ HasCart(sessions'[k])
      /\ \A k \in DOMAIN sessions' :
           /\ HasCart(sessions'[k])
           /\ sessions'[k].cartId \in 1..Len(cartLog')
           /\ sessions'[k].checkoutUrl \in FewInputs.urls
           /\ MapHas(written', k) /\ sessions'[k] = written'[k] ]_vars

\* C13 witness: the store holds two keys, one of them with a record that replaced
\* an earlier one.
C13_Witness ==
  /\ Cardinality(DOMAIN sessions) >= 2
  /\ \E k \in DOMAIN sessions : Cardinality(CartsOf(k)) = 2

\* The key C14 states for a caller: the header value when present and non-empty,
\* otherwise the first 128 characters (or all, if fewer) of ip:userAgent.
ClaimedKey(c) ==
  IF c.hdr.t = "string" /\ c.hdr.s # <<>> THEN c.hdr.s
  ELSE LET full == c.ip \o <<":">> \o (IF c.ua.t = "string" THEN c.ua.s ELSE <<>>)
       IN [i \in 1..(IF Len(full) < 128 THEN Len(full) ELSE 128) |-> full[i]]

\* C14: the session key of every caller is the X-Session-Id value when present
\* and non-empty, whatever its address and user agent, otherwise ip:userAgent cut
\* to at most 128 characters; a request that reaches ensureCartForSession works
\* under that key; with requests handled one at a time, a request whose key has
\* a cart goes on with exactly that record and creates none, and once the store is
\* quiet all callers with one key (the same header, or coinciding derived keys)
\* are answered by create-checkout with one and the same record.
C14_SessionKey ==
  /\ \A c \in KeyClients :
       /\ getSessionId(c) = ClaimedKey(c)
       /\ Len(getSessionId(c)) <= 128
  /\ (started > 0 /\ Resolves(Latest)) =>
       LET k == ClaimedKey(Latest.client)
       IN /\ Latest.sid = k
          /\ HasCart(MapGet(store0, k)) =>
               /\ Latest.session = MapGet(store0, k)
               /\ CallsOf(Latest, "CART_CREATE") = {}
  /\ Quiet =>
       \A c1 \in KeyClients, c2 \in KeyClients :
         (ClaimedKey(c1) = ClaimedKey(c2) /\ HasCart(MapGet(sessions, ClaimedKey(c1)))) =>
            LET o1 == CheckoutBegin(sessions, IdleRq, c1)
                o2 == CheckoutBegin(sessions, IdleRq, c2)
            IN /\ o1.rq.resp = o2.rq.resp
               /\ o1.rq.resp.status = 200
               /\ o1.rq.session = MapGet(sessions, ClaimedKey(c1))
               /\ o2.rq.session = o1.rq.session

\* C14 witness: a caller without header whose ip:userAgent has exactly 128
\* characters created a cart by create-checkout, and the add-to-cart of another
\* caller, whose ip:userAgent was cut to the same 128 characters, is sending
\* its line to that cart.
C14_Witness ==
  /\ last.route = "create-checkout" /\ last.resp.status = 200 /\ last.sent = <<CreateCall>>
  /\ last.client.hdr = Undefined /\ Len(last.client.ua.s) = 126
  /\ \E r \in InFlight :
       /\ req[r].pc = "CART_LINES_ADD" /\ Len(req[r].sent) = 1
       /\ req[r].client.hdr = Undefined /\ Len(req[r].client.ua.s) = 130
       /\ Len(req[r].sid) = 128
       /\ req[r].session = last.session
       /\ req[r].sent[1].cartId = last.resp.cartId

\* The request a step belongs to: the one whose slot changed, or, when no slot
\* changed (a request answered on arrival), the one just answered.
Acting ==
  IF \E r \in Slots : req'[r] # req[r]
  THEN LET r == CHOOSE x \in Slots : req'[x] # req[x]
       IN IF Free(r) THEN req'[r] ELSE req[r]
  ELSE last'

\* The keys whose store entry a step creates, changes or removes.
Touched ==
  { k \in (DOMAIN sessions) \cup (DOMAIN sessions') :
      MapHas(sessions, k) # MapHas(sessions', k) \/ MapGet(sessions, k) # MapGet(sessions', k) }

StoreFree(route) == route \in {"search", "product"}

\* C15: under any interleaving, every step of a request handler touches at most
\* the store entry of the request's own session key; a step of a search or a
\* product-by-handle request touches no entry, and what such a request sends
\* and answers does not depend on the store.
C15_OtherKeysUntouched ==
  [][ /\ Touched \subseteq {Acting.sid}
      /\ StoreFree(Acting.route) => Touched = {}
      /\ \A r \in Slots, m \in {EmptyMap, written} :
           (req'[r] # req[r] /\ StoreFree(Acting.route)) =>
             IF Free(r)
             THEN LET o == IF Acting.route = "search"
                           THEN SearchBegin(m, IdleRq, Acting.body)
                           ELSE ProductBegin(m, IdleRq, Acting.sent[1].handle)
                  IN o.rq = req'[r] /\ o.sessions = m
             ELSE \A ans \in AnyAnswer :
                    LET o == IF req[r].pc = "SEARCH" THEN SearchReturn(m, req[r], ans)
                             ELSE ProductReturn(m, req[r], ans)
                    IN /\ o.rq = Return(r, ans).rq /\ o.sessions = m
                       /\ Return(r, ans).sessions = sessions ]_vars

\* C15 witness: the store holds the carts of two keys, the latest answered
\* request stored the record of one of them, and a product-by-handle request is
\* being handled.
C15_Witness ==
  /\ Cardinality(DOMAIN sessions) = 2
  /\ SuccessfulAdd(last)
  /\ \E r \in InFlight : req[r].route = "product"

\* C16: the remote creating a new cart on every createCart (as CartCreateAnswered
\* does) and every cartLinesAdd answer so far having carried the id of the cart
\* it was given, in every reachable state of concurrently handled requests no
\* two distinct session keys map to the same cartId, and no request in flight
\* works with another key's cart.
C16_NoSharedCart ==
  echoed =>
    /\ \A k1 \in DOMAIN sessions, k2 \in DOMAIN sessions :
         k1 # k2 => sessions[k1].cartId # sessions[k2].cartId
    /\ \A r \in InFlight, k \in DOMAIN sessions :
         (HasCart(req[r].session) /\ k # req[r].sid) => sessions[k].cartId # req[r].session.cartId

\* C16 witness: two keys hold carts, each after a successful add-to-cart answered
\* with the cart it was given, and one of the keys has had two carts created.
C16_Witness ==
  /\ echoed /\ Cardinality(DOMAIN sessions) = 2
  /\ \A k \in DOMAIN sessions : MapHas(firstAdd, k)
  /\ \E k \in DOMAIN sessions : Cardinality(CartsOf(k)) = 2

\* The three responses a handler sends: a result, the 400 of add-to-cart, a 500
\* with a message.
WellFormed(rq) ==
  \/ rq.resp.status = 200 /\ rq.resp.message = ""
  \/ /\ rq.resp = ErrorResp(400, "variantId required")
     /\ rq.route = "add-to-cart" /\ rq.sent = <<>>
  \/ rq.resp.status = 500 /\ rq.resp.message # "" /\ rq.resp.cartId = 0 /\ rq.sent # <<>>

\* C17: no request is answered twice: a request being handled has been sent no
\* response and occupies its slot, an answered one exactly one response, which is
\* a result, the 400 validation error or a 500 with a message; whatever the
\* remote answers to the call a request awaits and whatever happened to other
\* requests, the handler answers or goes on to its next call; and, the remote
\* eventually answering every call, every request being handled is eventually
\* answered (its slot is released).
C17_AnsweredOnce ==
  /\ [](/\ \A r \in InFlight : req[r].answers = 0 /\ req[r].pc # "done"
        /\ last.pc = "done" => (last.answers = 1 /\ WellFormed(last))
        /\ last.pc # "done" => (last = IdleRq /\ (started > 0 => InFlight # {}))
        /\ \A r \in InFlight, ans \in AnyAnswer :
             LET o == Return(r, ans)
             IN \/ o.rq.pc = "done" /\ o.rq.answers = 1 /\ WellFormed(o.rq)
                \/ o.rq.pc = "CART_LINES_ADD" /\ o.rq.answers = 0 /\ req[r].pc = "CART_CREATE")
  /\ \A r \in Slots : (req[r].pc # "idle") ~> (req[r].pc = "idle")

\* C17 witness: a request was answered 500 while another request, which arrived
\* before that answer, is still being handled.
C17_Witness ==
  /\ last.pc = "done" /\ last.resp.status = 500 /\ last.answers = 1
  /\ \E r \in InFlight : req[r].pc = "CART_LINES_ADD"
  /\ started = 2

====
